---- MODULE Spec2Model ----
(***************************************************************************)
(* A model of PyBaMM's StateVector (expression_tree/state_vector.py) and   *)
(* of its concatenation nodes (expression_tree/concatenations.py).         *)
(*                                                                         *)
(* Conventions.  Python sequences are 0-based, TLA+ sequences 1-based:     *)
(* Python's a[k] is a[k + 1] here.  An optional integer (a slice bound     *)
(* that may be None) is <<>> for None and <<v>> for the integer v.  A      *)
(* Python exception is a result whose status is the exception's name.      *)
(***************************************************************************)
EXTENDS Integers, Sequences, FiniteSets, TLC

VARIABLES sv, out, dc, dout, aux

vars == <<sv, out, dc, dout, aux>>

(***************************************************************************)
(* Helpers: optional integers, slices, exceptions.                         *)
(***************************************************************************)
None == <<>>

Some(v) == <<v>>

IsNone(b) == b = <<>>

Val(b) == b[1]

Min(a, b) == IF a <= b THEN a ELSE b

Max(a, b) == IF a >= b THEN a ELSE b

Raise(e) == [status |-> e]

IsOk(r) == r.status = "ok"

\* slice(start, stop): the step is always None in this code base
pySlice(start, stop) == [isSlice |-> TRUE, start |-> start, stop |-> stop]

\* an argument that is no slice object (an int, a list, ...)
NotASlice == [isSlice |-> FALSE, start |-> None, stop |-> None]

\* slice(start, stop).indices(n): where the slice starts in an array of n
SliceLo(s, n) ==
    IF IsNone(s.start) THEN 0
    ELSE IF Val(s.start) < 0 THEN Max(Val(s.start) + n, 0)
    ELSE Min(Val(s.start), n)

\* slice(start, stop).indices(n): where the slice stops in an array of n
SliceHi(s, n) ==
    IF IsNone(s.stop) THEN n
    ELSE IF Val(s.stop) < 0 THEN Max(Val(s.stop) + n, 0)
    ELSE Min(Val(s.stop), n)

\* array[y_slice] = True on a boolean array (numpy basic slicing)
AssignTrue(array, y_slice) ==
    [k \in 1..Len(array) |->
        IF SliceLo(y_slice, Len(array)) <= k - 1 /\ k - 1 < SliceHi(y_slice, Len(array))
        THEN TRUE ELSE array[k]]

\* np.arange(a, b) as the sequence a, a+1, ..., b-1
Arange(a, b) == [k \in 1..Max(b - a, 0) |-> a + k - 1]

(***************************************************************************)
(* StateVector                                                             *)
(***************************************************************************)

\* the loop "for y_slice in y_slices: array[y_slice] = True", from slice i on
RECURSIVE MarkSlices(_, _, _)
MarkSlices(array, y_slices, i) ==
    IF i > Len(y_slices) THEN array
    ELSE MarkSlices(AssignTrue(array, y_slices[i]), y_slices, i + 1)

\* an optional mask: evaluation_array=None, or a list of booleans
NoMask == [given |-> FALSE, arr |-> <<>>]

GivenMask(arr) == [given |-> TRUE, arr |-> arr]

\* whether set_evaluation_array takes the fast path that reuses the mask
ReusesMask(evaluation_array, debug_mode) == evaluation_array.given /\ ~debug_mode

\* a mutation of ComputedMask, for comparison: only the last slice is marked
ComputedMaskLastOnly(y_slices) ==
    AssignTrue([k \in 1..Val(y_slices[Len(y_slices)].stop) |-> FALSE],
               y_slices[Len(y_slices)])

\* set_evaluation_array, when it recomputes: the mask over [0, y_slices[-1].stop)
ComputedMask(y_slices) ==
    MarkSlices([k \in 1..Val(y_slices[Len(y_slices)].stop) |-> FALSE], y_slices, 1)

set_evaluation_array(y_slices, evaluation_array, debug_mode) ==
    IF ReusesMask(evaluation_array, debug_mode) THEN evaluation_array.arr
    ELSE ComputedMask(y_slices)

\* "{:d}".format(None) raises TypeError: the bounds the default name formats
DefaultNameFails(y_slices) ==
    LET n == Len(y_slices) IN
    \/ IsNone(y_slices[1].start) /\ IsNone(y_slices[n].stop)
    \/ ~IsNone(y_slices[1].start) /\ IsNone(y_slices[1].stop)
    \/ n > 1 /\ (IsNone(y_slices[2].start) \/ IsNone(y_slices[2].stop))
    \/ n > 2 /\ (IsNone(y_slices[n].start) \/ IsNone(y_slices[n].stop))

\* the default name, as the format it takes and the numbers it prints
DefaultName(y_slices) ==
    LET n == Len(y_slices)
        head == IF IsNone(y_slices[1].start)
                THEN <<Val(y_slices[n].stop)>>
                ELSE <<Val(y_slices[1].start), Val(y_slices[1].stop)>>
        second == IF n > 1 THEN <<Val(y_slices[2].start), Val(y_slices[2].stop)>>
                  ELSE <<>>
        last == IF n > 2 THEN <<Val(y_slices[n].start), Val(y_slices[n].stop)>>
                ELSE <<>>
    IN [custom |-> FALSE, open |-> IsNone(y_slices[1].start),
        nums |-> head \o second \o last]

\* a name passed by the caller
GivenName == [custom |-> TRUE, open |-> FALSE, nums |-> <<>>]

\* a mutation of HasNonSlice, for comparison: only the last argument is looked at
HasNonSliceLastOnly(y_slices) ==
    Len(y_slices) > 0 /\ ~y_slices[Len(y_slices)].isSlice

\* the isinstance loop over the arguments: some argument is no slice

HasNonSlice(y_slices) == \E k \in 1..Len(y_slices) : ~y_slices[k].isSlice

\* a dict: a function on its keys; {} is the function on no key
EmptyDict == [k \in {} |-> <<>>]

\* StateVector.__init__(*y_slices, name, domain, auxiliary_domains,
\* evaluation_array), with pybamm.settings.debug_mode read by
\* set_evaluation_array
StateVectorInit(y_slices, name, domain, auxiliary_domains, evaluation_array, debug_mode) ==
    IF HasNonSlice(y_slices) THEN Raise("TypeError")
    ELSE IF Len(y_slices) = 0 THEN Raise("IndexError")
    ELSE IF IsNone(name) /\ DefaultNameFails(y_slices) THEN Raise("TypeError")
    ELSE IF ~ReusesMask(evaluation_array, debug_mode)
            /\ IsNone(y_slices[Len(y_slices)].stop) THEN Raise("TypeError")
    ELSE IF ~ReusesMask(evaluation_array, debug_mode)
            /\ Val(y_slices[Len(y_slices)].stop) < 0 THEN Raise("ValueError")
    ELSE [status |-> "ok",
          kind |-> "StateVector",
          y_slices |-> y_slices,
          name |-> IF IsNone(name) THEN DefaultName(y_slices) ELSE Val(name),
          domain |-> domain,
          auxiliary_domains |-> auxiliary_domains,
          first_point |-> y_slices[1].start,
          last_point |-> y_slices[Len(y_slices)].stop,
          evaluation_array |->
              set_evaluation_array(y_slices, evaluation_array, debug_mode)]

\* StateVector.new_copy
StateVectorNewCopy(s, debug_mode) ==
    StateVectorInit(s.y_slices, Some(s.name), s.domain, s.auxiliary_domains,
                    GivenMask(s.evaluation_array), debug_mode)

\* StateVector.size: evaluation_array.count(True)
StateVectorSize(s) ==
    Cardinality({k \in 1..Len(s.evaluation_array) : s.evaluation_array[k]})

\* a mutation of MaskSelect, for comparison: the mask is forgotten
MaskSelectAll(v, mask, i) == v

\* boolean-mask indexing v[mask] for len(v) = len(mask), from position i on
RECURSIVE MaskSelect(_, _, _)
MaskSelect(v, mask, i) ==
    IF i > Len(mask) THEN <<>>
    ELSE (IF mask[i] THEN <<v[i]>> ELSE <<>>) \o MaskSelect(v, mask, i + 1)

\* the external vector: y=None, or an array of ndim 1 (flat) or 2 (a column)
NoY == [given |-> FALSE, ndim |-> 0, v |-> <<>>]

GivenY(ndim, v) == [given |-> TRUE, ndim |-> ndim, v |-> v]

\* StateVector._base_evaluate(t, y)
StateVectorEvaluate(s, y) ==
    IF ~y.given THEN Raise("TypeError")
    ELSE IF Len(y.v) < Len(s.evaluation_array) THEN Raise("ValueError")
    ELSE [status |-> "ok",
          ndim |-> IF y.ndim = 1 THEN 2 ELSE y.ndim,
          data |-> MaskSelect(SubSeq(y.v, 1, Len(s.evaluation_array)),
                              s.evaluation_array, 1)]

\* one row of a block: 1 in the column whose global index is the row's
JacRow(g, variable_y_indices) ==
    [c \in 1..Len(variable_y_indices) |->
        IF variable_y_indices[c] = g THEN 1 ELSE 0]

\* csr_matrix((rows, cols)): the all-zero matrix
ZeroMatrix(nrows, ncols) == [r \in 1..nrows |-> [c \in 1..ncols |-> 0]]

\* the body of jac's loop for one y_slice: jac is the matrix so far
JacStep(jac, y_slice, variable_y_indices) ==
    LET slice_indices == Arange(Val(y_slice.start), Val(y_slice.stop))
        common == {slice_indices[r] : r \in 1..Len(slice_indices)}
                  \cap {variable_y_indices[c] : c \in 1..Len(variable_y_indices)}
    IN IF common = {}
       THEN ZeroMatrix(Len(slice_indices), Len(variable_y_indices))
       ELSE jac \o [r \in 1..Len(slice_indices) |->
                       JacRow(slice_indices[r], variable_y_indices)]

\* "for y_slice in self.y_slices", from slice i on
RECURSIVE JacLoop(_, _, _, _)
JacLoop(jac, y_slices, variable_y_indices, i) ==
    IF i > Len(y_slices) THEN jac
    ELSE JacLoop(JacStep(jac, y_slices[i], variable_y_indices),
                 y_slices, variable_y_indices, i + 1)

\* StateVector.jac(variable), for slices with integer bounds: a matrix is its
\* number of columns and the sequence of its rows
StateVectorJac(s, variable) ==
    IF Len(variable.y_slices) > 1 THEN Raise("NotImplementedError")
    ELSE LET variable_y_indices ==
                 Arange(Val(variable.first_point), Val(variable.last_point))
         IN [status |-> "ok",
             ncols |-> Len(variable_y_indices),
             rows |-> JacLoop(<<>>, s.y_slices, variable_y_indices, 1)]

(***************************************************************************)
(* Concatenation (base class)                                              *)
(***************************************************************************)

\* the elements of a sequence
Range(f) == {f[k] : k \in 1..Len(f)}

\* Concatenation.get_children_domains, from child i on: the domains so far
RECURSIVE get_children_domains(_, _, _)
get_children_domains(children, i, domain) ==
    IF i > Len(children) THEN [status |-> "ok", domain |-> domain]
    ELSE IF Range(domain) \cap Range(children[i].domain) = {}
         THEN get_children_domains(children, i + 1, domain \o children[i].domain)
         ELSE Raise("DomainError")

\* hasattr(aux_domains, level) for a dict aux_domains: whether level names an
\* attribute of every dict (its methods), whatever keys the dict holds
DictAttributes == {"keys", "items", "values", "get", "pop", "copy", "update", "clear"}

HasAttrOfDict(level) == level \in DictAttributes

\* d[key] = value
DictSet(d, key, value) ==
    [k \in DOMAIN d \cup {key} |-> IF k = key THEN value ELSE d[k]]

\* the body of the loop over the levels of one child, for one level
AuxStep(aux_domains, child_aux, level) ==
    IF ~HasAttrOfDict(level)
    THEN [status |-> "ok", aux |-> DictSet(aux_domains, level, child_aux[level])]
    ELSE IF level \notin DOMAIN aux_domains THEN Raise("KeyError")
    ELSE IF aux_domains[level] = <<>> \/ child_aux[level] = aux_domains[level]
    THEN [status |-> "ok", aux |-> DictSet(aux_domains, level, child_aux[level])]
    ELSE Raise("DomainError")

\* "for level in child.auxiliary_domains.keys()", over the levels left
RECURSIVE AuxLevels(_, _, _)
AuxLevels(aux_domains, child_aux, levels) ==
    IF levels = {} THEN [status |-> "ok", aux |-> aux_domains]
    ELSE LET level == CHOOSE l \in levels : TRUE
             step == AuxStep(aux_domains, child_aux, level)
         IN IF IsOk(step) THEN AuxLevels(step.aux, child_aux, levels \ {level})
            ELSE step

\* Concatenation.get_children_auxiliary_domains, from child i on
RECURSIVE get_children_auxiliary_domains(_, _, _)
get_children_auxiliary_domains(children, i, aux_domains) ==
    IF i > Len(children) THEN [status |-> "ok", aux |-> aux_domains]
    ELSE LET r == AuxLevels(aux_domains, children[i].auxiliary_domains,
                            DOMAIN children[i].auxiliary_domains)
         IN IF IsOk(r) THEN get_children_auxiliary_domains(children, i + 1, r.aux)
            ELSE r

\* Concatenation.__init__(*children, name, check_domain, concat_fun)
ConcatenationInit(children, name, check_domain, concat_fun) ==
    LET d == get_children_domains(children, 1, <<>>)
        a == get_children_auxiliary_domains(children, 1, EmptyDict)
    IN IF check_domain /\ ~IsOk(d) THEN d
       ELSE IF check_domain /\ ~IsOk(a) THEN a
       ELSE [status |-> "ok",
             kind |-> "Concatenation",
             name |-> name,
             children |-> children,
             domain |-> IF check_domain THEN d.domain ELSE <<>>,
             auxiliary_domains |-> IF check_domain THEN a.aux ELSE EmptyDict,
             concatenation_function |-> concat_fun]

\* a child that is a constant column of the given entries (pybamm.Vector)
VectorSymbol(data, domain, auxiliary_domains) ==
    [status |-> "ok", kind |-> "Vector", domain |-> domain,
     auxiliary_domains |-> auxiliary_domains, data |-> data]

(***************************************************************************)
(* DomainConcatenation.  A mesh is its domain_order and, per domain, the   *)
(* sequence sub[d] of the point counts of its submeshes: len(mesh[d]) is   *)
(* Len(sub[d]) and mesh[d][i].npts is sub[d][i + 1].  A slice of a vector  *)
(* is its start and stop.                                                  *)
(***************************************************************************)

\* slices[dom].append(slice(start, end))
SlicesAppend(slices, dom, start, end) ==
    [slices EXCEPT ![dom] = Append(@, [start |-> start, stop |-> end])]

\* a mutation of SliceLoop, for comparison: the loop over the domains is the
\* outer one (step n is secondary index n % second_pts of domain n \div second_pts)
RECURSIVE SliceLoopDomainMajor(_, _, _, _, _, _)
SliceLoopDomainMajor(mesh, domain, second_pts, n, start, slices) ==
    IF n >= second_pts * Len(domain) THEN slices
    ELSE LET i == n % second_pts
             dom == domain[(n \div second_pts) + 1]
             end == start + mesh.sub[dom][i + 1]
         IN SliceLoopDomainMajor(mesh, domain, second_pts, n + 1, end,
                                 SlicesAppend(slices, dom, start, end))

\* the loops "for i in range(second_pts): for dom in node.domain" of
\* create_slices, from step n on (step n is domain n % len(domain) of secondary
\* index n \div len(domain)), start the running cursor
RECURSIVE SliceLoop(_, _, _, _, _, _)
SliceLoop(mesh, domain, second_pts, n, start, slices) ==
    IF n >= second_pts * Len(domain) THEN slices
    ELSE LET i == n \div Len(domain)
             dom == domain[(n % Len(domain)) + 1]
             end == start + mesh.sub[dom][i + 1]
         IN SliceLoop(mesh, domain, second_pts, n + 1, end,
                      SlicesAppend(slices, dom, start, end))

\* DomainConcatenation.create_slices(node), for a node of the given domain
create_slices(mesh, domain, secondary_dimensions_npts) ==
    IF Len(domain) = 0 THEN Raise("IndexError")
    ELSE LET second_pts == Len(mesh.sub[domain[1]]) IN
         IF second_pts # secondary_dimensions_npts THEN Raise("ValueError")
         ELSE IF \E j \in 1..Len(domain) : Len(mesh.sub[domain[j]]) < second_pts
         THEN Raise("IndexError")
         ELSE [status |-> "ok",
               slices |-> SliceLoop(mesh, domain, second_pts, 0, 0,
                                    [d \in Range(domain) |-> <<>>])]

\* sorted(domain, key=mesh.domain_order.index)
SortByMesh(domain, domain_order) ==
    SelectSeq(domain_order, LAMBDA d : d \in Range(domain))

\* the first child whose slices cannot be created
FirstFailing(results) ==
    CHOOSE k \in 1..Len(results) :
        ~IsOk(results[k]) /\ \A j \in 1..k - 1 : IsOk(results[j])

\* DomainConcatenation.__init__(children, mesh), copy_this=None
DomainConcatenationInit(children, mesh) ==
    LET base == ConcatenationInit(children, "domain concatenation", TRUE, "none") IN
    IF ~IsOk(base) THEN base
    ELSE IF ~(Range(base.domain) \subseteq Range(mesh.domain_order))
    THEN Raise("ValueError")
    ELSE LET domain == SortByMesh(base.domain, mesh.domain_order) IN
    IF domain = <<>> THEN Raise("DomainError")
    ELSE LET npts == Len(mesh.sub[domain[1]])
             own == create_slices(mesh, domain, npts)
             kids == [k \in 1..Len(children) |->
                         create_slices(mesh, children[k].domain, npts)]
    IN IF ~IsOk(own) THEN own
       ELSE IF own.slices[domain[Len(domain)]] = <<>> THEN Raise("IndexError")
       ELSE IF \E k \in 1..Len(kids) : ~IsOk(kids[k]) THEN kids[FirstFailing(kids)]
       ELSE [status |-> "ok",
             kind |-> "DomainConcatenation",
             name |-> base.name,
             children |-> children,
             domain |-> domain,
             auxiliary_domains |-> base.auxiliary_domains,
             mesh |-> mesh,
             secondary_dimensions_npts |-> npts,
             slices |-> own.slices,
             size |-> own.slices[domain[Len(domain)]]
                          [Len(own.slices[domain[Len(domain)]])].stop,
             children_slices |-> [k \in 1..Len(kids) |-> kids[k].slices]]

\* DomainConcatenation.__init__(children, mesh, copy_this): everything but
\* the children and the merged domains is taken from copy_this
DomainConcatenationCopy(children, mesh, copy_this) ==
    LET base == ConcatenationInit(children, "domain concatenation", TRUE, "none") IN
    IF ~IsOk(base) THEN base
    ELSE IF ~(Range(base.domain) \subseteq Range(mesh.domain_order))
    THEN Raise("ValueError")
    ELSE [status |-> "ok",
          kind |-> "DomainConcatenation",
          name |-> base.name,
          children |-> children,
          domain |-> SortByMesh(base.domain, mesh.domain_order),
          auxiliary_domains |-> base.auxiliary_domains,
          mesh |-> copy_this.mesh,
          secondary_dimensions_npts |-> copy_this.secondary_dimensions_npts,
          slices |-> copy_this.slices,
          size |-> copy_this.size,
          children_slices |-> copy_this.children_slices]

\* v[_slice] for a slice with 0 <= start <= stop: cut off at the end of v
Sliced(v, sl) == SubSeq(v, Min(sl.start, Len(v)) + 1, Min(sl.stop, Len(v)))

\* vector[target] = source: the shapes must agree, or source has one row and
\* is broadcast
AssignSlice(vector, target, source) ==
    IF Len(source) = target.stop - target.start
    THEN [status |-> "ok",
          vector |-> [p \in 1..Len(vector) |->
                         IF target.start < p /\ p <= target.stop
                         THEN source[p - target.start] ELSE vector[p]]]
    ELSE IF Len(source) = 1
    THEN [status |-> "ok",
          vector |-> [p \in 1..Len(vector) |->
                         IF target.start < p /\ p <= target.stop
                         THEN source[1] ELSE vector[p]]]
    ELSE Raise("ValueError")

\* the writes of one child, in the order of the loops "for child_dom,
\* child_slice in slices.items(): for i, _slice in enumerate(child_slice)":
\* the keys of a child's slices are in the order of the child's domain
ChildWrites(node, k) ==
    LET domain == node.children[k].domain
        npts == Len(node.children_slices[k][domain[1]])
    IN [n \in 1..Len(domain) * npts |->
           [child |-> k,
            dom |-> domain[((n - 1) \div npts) + 1],
            i |-> ((n - 1) % npts) + 1]]

\* the writes of children k.. in the order of "for child_vector, slices in
\* zip(children_eval, self._children_slices)"
RECURSIVE AllWrites(_, _, _)
AllWrites(node, count, k) ==
    IF k > count THEN <<>>
    ELSE ChildWrites(node, k) \o AllWrites(node, count, k + 1)

\* a mutation of WriteLoop, for comparison: every write goes to the slice of
\* secondary index 0 of its domain
RECURSIVE WriteLoopFirstIndex(_, _, _, _, _)
WriteLoopFirstIndex(node, children_eval, writes, n, vector) ==
    IF n > Len(writes) THEN [status |-> "ok", vector |-> vector]
    ELSE LET w == writes[n]
             r == AssignSlice(vector, node.slices[w.dom][1],
                              Sliced(children_eval[w.child],
                                     node.children_slices[w.child][w.dom][w.i]))
         IN IF IsOk(r)
            THEN WriteLoopFirstIndex(node, children_eval, writes, n + 1, r.vector)
            ELSE r

\* "vector[self._slices[child_dom][i]] = child_vector[_slice]" for the writes
\* from the n-th on
RECURSIVE WriteLoop(_, _, _, _, _)
WriteLoop(node, children_eval, writes, n, vector) ==
    IF n > Len(writes) THEN [status |-> "ok", vector |-> vector]
    ELSE LET w == writes[n]
             r == AssignSlice(vector, node.slices[w.dom][w.i],
                              Sliced(children_eval[w.child],
                                     node.children_slices[w.child][w.dom][w.i]))
         IN IF IsOk(r) THEN WriteLoop(node, children_eval, writes, n + 1, r.vector)
            ELSE r

\* DomainConcatenation._concatenation_evaluate(children_eval); np.empty gives
\* a vector of unspecified content, here filled with the value left
DomainConcatenationCombine(node, children_eval, left) ==
    WriteLoop(node, children_eval,
              AllWrites(node, Min(Len(children_eval), Len(node.children_slices)), 1),
              1, [p \in 1..node.size |-> left])

\* how many children have the mask bit of index p (from 0) set, the masks
\* padded with zeros to a common length
MaskSum(children, p) ==
    Cardinality({k \in 1..Len(children) :
                    /\ p < Len(children[k].evaluation_array)
                    /\ children[k].evaluation_array[p + 1]})

\* DomainConcatenation._concatenation_simplify(children), children the
\* simplified children of the node
DomainConcatenationSimplify(node, children, debug_mode) ==
    LET n == Len(children)
        longest_eval_array == Len(children[n].evaluation_array)
        copy == DomainConcatenationCopy(children, node.mesh, node)
        cleared == IF IsOk(copy) THEN [copy EXCEPT !.domain = <<>>] ELSE copy
    IN IF \A k \in 1..n : children[k].kind = "StateVector"
       THEN IF \E k \in 1..n : Len(children[k].evaluation_array) > longest_eval_array
            THEN Raise("ValueError")
            ELSE IF \A p \in 0..longest_eval_array - 1 : MaskSum(children, p) = 1
            THEN StateVectorInit(
                     <<pySlice(children[1].y_slices[1].start,
                               children[n].y_slices[Len(children[n].y_slices)].stop)>>,
                     None, <<>>, EmptyDict, NoMask, debug_mode)
            ELSE cleared
       ELSE cleared

\* child.evaluate(t, y) of a leaf
ChildEvaluate(child, y) ==
    IF child.kind = "StateVector"
    THEN LET r == StateVectorEvaluate(child, y)
         IN IF IsOk(r) THEN [status |-> "ok", vector |-> r.data] ELSE r
    ELSE [status |-> "ok", vector |-> child.data]

\* Concatenation.evaluate(t, y) of a DomainConcatenation, known_evals=None
DomainConcatenationEvaluate(node, y, left) ==
    LET evals == [k \in 1..Len(node.children) |-> ChildEvaluate(node.children[k], y)]
    IN IF \E k \in 1..Len(evals) : ~IsOk(evals[k]) THEN evals[FirstFailing(evals)]
       ELSE DomainConcatenationCombine(
                node, [k \in 1..Len(evals) |-> evals[k].vector], left)

\* child.jac(variable) of a leaf that is a column: one row per entry of the
\* child, row j the derivative of entry j, named by the entry it differentiates
ChildJac(child) == [j \in 1..Len(child.data) |-> [derivative_of |-> child.data[j]]]

\* SparseStack(*jacs): the rows of the blocks one below the other (vstack)
RECURSIVE SparseStack(_)
SparseStack(jacs) ==
    IF jacs = <<>> THEN <<>> ELSE Head(jacs) \o SparseStack(Tail(jacs))

\* a mutation of DomainJacLoop, for comparison: the loop over the children is
\* the outer one (step n is secondary index n % npts of child n \div npts)
RECURSIVE DomainJacLoopChildMajor(_, _, _, _)
DomainJacLoopChildMajor(node, child_jacs, n, jacs) ==
    LET count == Min(Len(child_jacs), Len(node.children_slices)) IN
    IF n >= node.secondary_dimensions_npts * count
    THEN [status |-> "ok", jacs |-> jacs]
    ELSE LET i == n % node.secondary_dimensions_npts
             k == (n \div node.secondary_dimensions_npts) + 1
             slices == node.children_slices[k]
         IN IF Cardinality(DOMAIN slices) > 1 THEN Raise("NotImplementedError")
            ELSE LET child_slice == slices[node.children[k].domain[1]]
                 IN DomainJacLoopChildMajor(node, child_jacs, n + 1,
                        Append(jacs, Sliced(child_jacs[k], child_slice[i + 1])))

\* the loops "for i in range(self.secondary_dimensions_npts): for child_jac,
\* slices in zip(child_jacs, self._children_slices)" of _jac, from step n on
\* (step n is child n % count of secondary index n \div count)
RECURSIVE DomainJacLoop(_, _, _, _)
DomainJacLoop(node, child_jacs, n, jacs) ==
    LET count == Min(Len(child_jacs), Len(node.children_slices)) IN
    IF n >= node.secondary_dimensions_npts * count
    THEN [status |-> "ok", jacs |-> jacs]
    ELSE LET i == n \div count
             k == (n % count) + 1
             slices == node.children_slices[k]
         IN IF Cardinality(DOMAIN slices) > 1 THEN Raise("NotImplementedError")
            ELSE LET child_slice == slices[node.children[k].domain[1]]
                 IN DomainJacLoop(node, child_jacs, n + 1,
                        Append(jacs, Sliced(child_jacs[k], child_slice[i + 1])))

\* DomainConcatenation._jac(variable), child_jacs the children's Jacobians
DomainConcatenationJac(node, child_jacs) ==
    LET r == DomainJacLoop(node, child_jacs, 0, <<>>)
    IN IF IsOk(r)
       THEN [status |-> "ok", kind |-> "SparseStack", jacs |-> r.jacs,
             rows |-> SparseStack(r.jacs)]
       ELSE r

(***************************************************************************)
(* Evaluation with known_evals.  known_evals is a dict from the id of a    *)
(* node to its value, here the sequence of its entries in insertion order; *)
(* visits records, for every return of Concatenation.evaluate, the node,   *)
(* whether _concatenation_evaluate was applied, and the value returned.    *)
(***************************************************************************)

\* NumpyConcatenation(*children), no child evaluating to a number
NumpyConcatenationInit(children) ==
    [ConcatenationInit(children, "numpy concatenation", FALSE, "np.concatenate")
        EXCEPT !.kind = "NumpyConcatenation"]

\* StateVector.set_id: the hash of the class, the name, the mask and the
\* domain.  Two keys of the small trees used here never hash alike.
StateVectorId(node) ==
    [class |-> "StateVector", name |-> node.name,
     evaluation_array |-> node.evaluation_array, domain |-> node.domain]

\* node.id of any node; that of a concatenation is made of its class, its
\* name, the ids of its children and its domain
RECURSIVE SymbolId(_)
SymbolId(node) ==
    IF node.kind = "StateVector" THEN StateVectorId(node)
    ELSE [class |-> node.kind, text |-> node.name,
          children |-> [k \in 1..Len(node.children) |-> SymbolId(node.children[k])],
          domain |-> node.domain]

\* id in known_evals, known_evals[id] and known_evals[id] = value
InKnownEvals(known_evals, id) == \E k \in 1..Len(known_evals) : known_evals[k].id = id

KnownEval(known_evals, id) ==
    known_evals[CHOOSE k \in 1..Len(known_evals) : known_evals[k].id = id].value

SetKnownEval(known_evals, id, value) ==
    IF InKnownEvals(known_evals, id)
    THEN [k \in 1..Len(known_evals) |->
             IF known_evals[k].id = id THEN [id |-> id, value |-> value]
             ELSE known_evals[k]]
    ELSE Append(known_evals, [id |-> id, value |-> value])

\* np.concatenate of columns: one below the other
RECURSIVE NumpyConcatenate(_)
NumpyConcatenate(arrays) ==
    IF arrays = <<>> THEN <<>> ELSE Head(arrays) \o NumpyConcatenate(Tail(arrays))

\* Concatenation._concatenation_evaluate(children_eval)
ConcatenationCombine(node, children_eval) ==
    IF Len(children_eval) = 0 THEN <<>> ELSE NumpyConcatenate(children_eval)

\* Concatenation.evaluate(t, y), known_evals=None, of a tree of
\* concatenations over leaves
RECURSIVE SymbolEvaluate(_, _)
SymbolEvaluate(node, y) ==
    IF node.kind \in {"StateVector", "Vector"} THEN ChildEvaluate(node, y)
    ELSE LET evals == [k \in 1..Len(node.children) |->
                          SymbolEvaluate(node.children[k], y)]
         IN IF \E k \in 1..Len(evals) : ~IsOk(evals[k]) THEN evals[FirstFailing(evals)]
            ELSE [status |-> "ok",
                  vector |-> ConcatenationCombine(
                                 node, [k \in 1..Len(evals) |-> evals[k].vector])]

\* Symbol.evaluate(t, y, known_evals) of a leaf: evaluated when its id is not
\* in known_evals, and the value kept there
LeafEvaluateMemo(node, y, known_evals, visits) ==
    IF InKnownEvals(known_evals, SymbolId(node))
    THEN [status |-> "ok", value |-> KnownEval(known_evals, SymbolId(node)),
          known_evals |-> known_evals, visits |-> visits]
    ELSE LET r == ChildEvaluate(node, y)
         IN IF IsOk(r)
            THEN [status |-> "ok", value |-> r.vector,
                  known_evals |-> SetKnownEval(known_evals, SymbolId(node), r.vector),
                  visits |-> visits]
            ELSE r

RECURSIVE SymbolEvaluateMemo(_, _, _, _)

RECURSIVE ChildrenEvaluateMemo(_, _, _, _, _, _)

\* a mutation of ConcatenationEvaluateMemo, for comparison: known_evals is
\* not looked up before the children are evaluated
ConcatenationEvaluateAlways(node, y, known_evals, visits) ==
    LET kids == ChildrenEvaluateMemo(node.children, 1, y, known_evals, visits, <<>>)
    IN IF ~IsOk(kids) THEN kids
       ELSE LET value == ConcatenationCombine(node, kids.children_eval)
            IN [status |-> "ok", value |-> value,
                known_evals |-> SetKnownEval(kids.known_evals, SymbolId(node), value),
                visits |-> Append(kids.visits,
                                  [node |-> node, combined |-> TRUE, value |-> value])]

\* Concatenation.evaluate(t, y, known_evals), known_evals not None
ConcatenationEvaluateMemo(node, y, known_evals, visits) ==
    IF InKnownEvals(known_evals, SymbolId(node))
    THEN [status |-> "ok", value |-> KnownEval(known_evals, SymbolId(node)),
          known_evals |-> known_evals,
          visits |-> Append(visits,
                            [node |-> node, combined |-> FALSE,
                             value |-> KnownEval(known_evals, SymbolId(node))])]
    ELSE LET kids == ChildrenEvaluateMemo(node.children, 1, y, known_evals, visits, <<>>)
         IN IF ~IsOk(kids) THEN kids
            ELSE LET stored == SetKnownEval(
                                   kids.known_evals, SymbolId(node),
                                   ConcatenationCombine(node, kids.children_eval))
                 IN [status |-> "ok", value |-> KnownEval(stored, SymbolId(node)),
                     known_evals |-> stored,
                     visits |-> Append(kids.visits,
                                       [node |-> node, combined |-> TRUE,
                                        value |-> KnownEval(stored, SymbolId(node))])]

\* child.evaluate(t, y, known_evals): the method of the child's class
SymbolEvaluateMemo(node, y, known_evals, visits) ==
    IF node.kind \in {"StateVector", "Vector"}
    THEN LeafEvaluateMemo(node, y, known_evals, visits)
    ELSE ConcatenationEvaluateMemo(node, y, known_evals, visits)

\* "for idx, child in enumerate(children): children_eval[idx], known_evals =
\* child.evaluate(t, y, known_evals)" from child k on
ChildrenEvaluateMemo(children, k, y, known_evals, visits, children_eval) ==
    IF k > Len(children)
    THEN [status |-> "ok", children_eval |-> children_eval,
          known_evals |-> known_evals, visits |-> visits]
    ELSE LET r == SymbolEvaluateMemo(children[k], y, known_evals, visits)
         IN IF ~IsOk(r) THEN r
            ELSE ChildrenEvaluateMemo(children, k + 1, y, r.known_evals, r.visits,
                                      Append(children_eval, r.value))

(***************************************************************************)
(* Inputs                                                                  *)
(***************************************************************************)

\* sequences over S of length lo..hi
SeqsOf(S, lo, hi) == UNION {[1..n -> S] : n \in lo..hi}

\* the largest slice bound and the most arguments tried on the constructor
MaxBound == 2

MaxArgs == 2

\* a bound of a slice object: None, a negative or a non-negative integer
AnyBound == {None} \cup {Some(v) : v \in -1..MaxBound}

\* a constructor argument: any slice object, or something that is no slice
AnyArg == {NotASlice} \cup {pySlice(a, b) : a \in AnyBound, b \in AnyBound}

\* the largest index of the external vector that a slice of a used
\* StateVector reaches, and the most slices it has
MaxPoint == 3

MaxSlices == 2

\* a slice with integer bounds in range (start > stop included)
IntSlice == {pySlice(Some(a), Some(b)) : a \in 0..MaxPoint, b \in 0..MaxPoint}

\* the external vector of n entries, all different: entry at index k is 10(k+1)
YVec(n) == [k \in 1..n |-> 10 * k]

ExternalY == {NoY} \cup {GivenY(d, YVec(n)) : d \in 1..2, n \in 0..MaxPoint + 1}

\* the children of a domain-checked Concatenation whose auxiliary domains
\* are merged: how many, the axes and the values an axis takes ([] is unset)
MaxAuxChildren == 3

AuxLevelNames == {"secondary", "keys"}

AuxValues == {<<>>, <<"current collector">>, <<"negative particle">>}

AuxDicts == UNION {[L -> AuxValues] : L \in SUBSET AuxLevelNames}

\* the meshes a DomainConcatenation is laid out over: two domains in their
\* canonical order, each with up to MaxSec submeshes of 1..MaxPts points
MeshDomainOrder == <<"A", "B">>

MaxSec == 2

MaxPts == 2

Meshes ==
    {[domain_order |-> MeshDomainOrder, sub |-> f] :
        f \in [Range(MeshDomainOrder) -> SeqsOf(1..MaxPts, 0, MaxSec)]}

\* the domain of a child: some of the mesh's domains, in any order
ChildDomains ==
    {d \in SeqsOf(Range(MeshDomainOrder), 0, Len(MeshDomainOrder)) :
        \A j, k \in 1..Len(d) : j # k => d[j] # d[k]}

MaxChildren == 2

\* what np.empty may hold
LeftInMemory == {0, -1}

\* the number of entries of a discretised child of the given domain: what
\* create_slices lays out for it
ChildSize(mesh, domain) ==
    IF domain = <<>> THEN 0
    ELSE LET r == create_slices(mesh, domain, Len(mesh.sub[domain[1]]))
         IN IF IsOk(r) /\ r.slices[domain[Len(domain)]] # <<>>
            THEN r.slices[domain[Len(domain)]][Len(r.slices[domain[Len(domain)]])].stop
            ELSE 0

\* the k-th child, a column of ChildSize entries, all different: entry j of
\* child k is 100 k + j
LayoutChild(mesh, domain, k) ==
    VectorSymbol([j \in 1..ChildSize(mesh, domain) |-> 100 * k + j], domain, EmptyDict)

\* the children of a DomainConcatenation that is simplified: StateVectors of
\* up to MaxKidSlices non-empty slices below MaxKidPoint, or a constant
\* column; one child per domain of the mesh, in any order
MaxKidPoint == 4

MaxKidSlices == 2

KidSlices ==
    {sl \in {pySlice(Some(a), Some(b)) : a \in 0..MaxKidPoint, b \in 0..MaxKidPoint} :
        Val(sl.start) < Val(sl.stop)}

\* a child of the given content (slices, or <<>> for a constant column of
\* one entry) on domain d
Kid(content, d) ==
    IF content = <<>> THEN VectorSymbol(<<7>>, <<d>>, EmptyDict)
    ELSE StateVectorInit(content, None, <<d>>, EmptyDict, NoMask, FALSE)

KidContents == {<<>>} \cup SeqsOf(KidSlices, 1, MaxKidSlices)

\* the size of a child: StateVector.size, or the length of the column
KidSize(kid) == IF kid.kind = "StateVector" THEN StateVectorSize(kid) ELSE Len(kid.data)

\* the mesh that discretised the children: one submesh per domain, of as
\* many points as the child on that domain has entries
KidMesh(kids) ==
    [domain_order |-> MeshDomainOrder,
     sub |-> [d \in Range(MeshDomainOrder) |->
                 IF \E k \in 1..Len(kids) : kids[k].domain = <<d>>
                 THEN <<KidSize(kids[CHOOSE k \in 1..Len(kids) : kids[k].domain = <<d>>])>>
                 ELSE <<1>>]]

\* the injective assignments of domains to n children
KidDomains(n) ==
    {f \in [1..n -> Range(MeshDomainOrder)] : \A j, k \in 1..n : j # k => f[j] # f[k]}

KidY == {NoY} \cup {GivenY(1, YVec(n)) : n \in 0..MaxKidPoint}

\* the trees that are evaluated with known_evals: how many children the root
\* and a concatenation below it have
MaxOuter == 2

MaxInner == 1

\* the leaves: y[0:1], y[1:2], and two StateVectors of the same name and mask
\* built from different slices
TreeLeaves ==
    {StateVectorInit(<<pySlice(Some(0), Some(1))>>, None, <<>>, EmptyDict, NoMask, FALSE),
     StateVectorInit(<<pySlice(Some(1), Some(2))>>, None, <<>>, EmptyDict, NoMask, FALSE),
     StateVectorInit(<<pySlice(Some(0), Some(2))>>, Some(GivenName), <<>>, EmptyDict,
                     NoMask, FALSE),
     StateVectorInit(<<pySlice(Some(0), Some(1)), pySlice(Some(1), Some(2))>>,
                     Some(GivenName), <<>>, EmptyDict, NoMask, FALSE)}

TreeInner == {NumpyConcatenationInit(c) : c \in SeqsOf(TreeLeaves, 0, MaxInner)}

\* y=None, a y too short for y[1:2], and a y long enough for every leaf
TreeY == {NoY, GivenY(1, YVec(1)), GivenY(1, YVec(2))}

(***************************************************************************)
(* State machine.  sv is the StateVector under construction or use, out    *)
(* the record of the last call on it.                                      *)
(***************************************************************************)
Nothing == [status |-> "none"]

NoCall == [op |-> "none"]

Init ==
    /\ sv = Nothing
    /\ out = NoCall
    /\ dc = Nothing
    /\ dout = NoCall
    /\ aux = NoCall

\* StateVector(*args) or StateVector(*args, name=...), no mask passed
ConstructFrom(Args, most) ==
    /\ sv = Nothing
    /\ \E args \in SeqsOf(Args, 0, most), named \in BOOLEAN, debug_mode \in BOOLEAN :
          /\ sv' = StateVectorInit(args, IF named THEN Some(GivenName) ELSE None,
                                   <<>>, EmptyDict, NoMask, debug_mode)
          /\ out' = [op |-> "__init__", args |-> args, named |-> named]
    /\ UNCHANGED <<dc, dout, aux>>

ConstructAny == ConstructFrom(AnyArg, MaxArgs)

Construct == ConstructFrom(IntSlice, MaxSlices)

\* s.new_copy(), in either setting of debug_mode
NewCopy ==
    /\ IsOk(sv)
    /\ out.op = "__init__"
    /\ \E debug_mode \in BOOLEAN :
          /\ sv' = StateVectorNewCopy(sv, debug_mode)
          /\ out' = [op |-> "new_copy", args |-> sv.y_slices, original |-> sv,
                     debug_mode |-> debug_mode]
    /\ UNCHANGED <<dc, dout, aux>>

\* s.evaluate(t, y)
Evaluate ==
    /\ IsOk(sv)
    /\ out.op = "__init__"
    /\ \E y \in ExternalY :
          out' = [op |-> "evaluate", y |-> y, result |-> StateVectorEvaluate(sv, y)]
    /\ UNCHANGED <<sv, dc, dout, aux>>

\* s.jac(variable), variable a single-slice StateVector or s itself
Jac ==
    /\ IsOk(sv)
    /\ out.op = "__init__"
    /\ \E variable \in {sv} \cup {StateVectorInit(<<v>>, None, <<>>, EmptyDict, NoMask, FALSE) :
                                     v \in IntSlice} :
          out' = [op |-> "jac", variable |-> variable,
                  result |-> StateVectorJac(sv, variable)]
    /\ UNCHANGED <<sv, dc, dout, aux>>

\* Concatenation(*children), domain-checked, over children without domain
ConcatenationConstruct ==
    /\ aux = NoCall
    /\ \E dicts \in SeqsOf(AuxDicts, 0, MaxAuxChildren) :
          aux' = [op |-> "Concatenation",
                  children |-> [k \in 1..Len(dicts) |->
                                   VectorSymbol(<<k>>, <<>>, dicts[k])],
                  result |-> ConcatenationInit(
                                 [k \in 1..Len(dicts) |->
                                     VectorSymbol(<<k>>, <<>>, dicts[k])],
                                 "concatenation", TRUE, "none")]
    /\ UNCHANGED <<sv, out, dc, dout>>

\* Concatenation.new_copy of the node just built: its class over the copies
\* of its children
ConcatenationNewCopy ==
    /\ aux.op = "Concatenation"
    /\ IsOk(aux.result)
    /\ aux' = [op |-> "new_copy",
               children |-> aux.children,
               result |-> ConcatenationInit(aux.result.children, "concatenation",
                                            TRUE, "none")]
    /\ UNCHANGED <<sv, out, dc, dout>>

NextAuxiliary == ConcatenationConstruct \/ ConcatenationNewCopy

SpecAuxiliary == Init /\ [][NextAuxiliary]_vars

\* DomainConcatenation(children, mesh)
DomainConstruct ==
    /\ dc = Nothing
    /\ \E mesh \in Meshes, domains \in SeqsOf(ChildDomains, 0, MaxChildren) :
          dc' = DomainConcatenationInit(
                    [k \in 1..Len(domains) |-> LayoutChild(mesh, domains[k], k)], mesh)
    /\ UNCHANGED <<sv, out, dout, aux>>

\* node.evaluate(t, y)
DomainEvaluate ==
    /\ IsOk(dc)
    /\ dout = NoCall
    /\ \E left \in LeftInMemory :
          dout' = [op |-> "evaluate",
                   children_eval |->
                       [k \in 1..Len(dc.children) |-> dc.children[k].data],
                   result |-> DomainConcatenationEvaluate(dc, NoY, left)]
    /\ UNCHANGED <<sv, out, dc, aux>>

NextDomain == DomainConstruct \/ DomainEvaluate

SpecDomainConcatenation == Init /\ [][NextDomain]_vars

\* DomainConcatenation(children, mesh) over StateVector children
KidsConstruct ==
    /\ dc = Nothing
    /\ \E n \in 1..Len(MeshDomainOrder) :
          \E contents \in [1..n -> KidContents], domains \in KidDomains(n) :
             LET kids == [k \in 1..n |-> Kid(contents[k], domains[k])]
             IN dc' = DomainConcatenationInit(kids, KidMesh(kids))
    /\ UNCHANGED <<sv, out, dout, aux>>

\* node.simplify(): the children simplify to copies of themselves, and the
\* node to _concatenation_simplify of them
Simplify ==
    /\ IsOk(dc)
    /\ dout = NoCall
    /\ \E debug_mode \in BOOLEAN :
          dout' = [op |-> "simplify",
                   result |-> DomainConcatenationSimplify(dc, dc.children, debug_mode)]
    /\ UNCHANGED <<sv, out, dc, aux>>

\* evaluate(t, y) of the node and of what it simplified to
EvaluateBoth ==
    /\ dout.op = "simplify"
    /\ IsOk(dout.result)
    /\ \E y \in KidY, left \in LeftInMemory :
          dout' = [op |-> "evaluate both",
                   simplified |-> dout.result,
                   y |-> y,
                   before |-> DomainConcatenationEvaluate(dc, y, left),
                   after |-> IF dout.result.kind = "StateVector"
                             THEN ChildEvaluate(dout.result, y)
                             ELSE DomainConcatenationEvaluate(dout.result, y, left)]
    /\ UNCHANGED <<sv, out, dc, aux>>

\* node.jac(variable), after node.evaluate(t, y) or on its own; the record
\* of the call keeps that of the evaluation before it
DomainJac ==
    /\ IsOk(dc)
    /\ dout.op \in {"none", "evaluate"}
    /\ dout' = [op |-> "jac",
                evaluated |-> dout,
                child_jacs |-> [k \in 1..Len(dc.children) |-> ChildJac(dc.children[k])],
                result |-> DomainConcatenationJac(
                               dc, [k \in 1..Len(dc.children) |->
                                       ChildJac(dc.children[k])])]
    /\ UNCHANGED <<sv, out, dc, aux>>

NextDomainJac == DomainConstruct \/ DomainEvaluate \/ DomainJac

SpecDomainJac == Init /\ [][NextDomainJac]_vars

\* a tree of NumpyConcatenations: the root over up to MaxOuter children, each
\* a leaf or a NumpyConcatenation of up to MaxInner leaves
TreeConstruct ==
    /\ dc = Nothing
    /\ \E children \in SeqsOf(TreeLeaves \cup TreeInner, 0, MaxOuter) :
          dc' = NumpyConcatenationInit(children)
    /\ UNCHANGED <<sv, out, dout, aux>>

\* root.evaluate(t, y)
TreeEvaluate ==
    /\ IsOk(dc)
    /\ dout = NoCall
    /\ \E y \in TreeY :
          dout' = [op |-> "evaluate", y |-> y, result |-> SymbolEvaluate(dc, y)]
    /\ UNCHANGED <<sv, out, dc, aux>>

\* root.evaluate(t, y, known_evals={}) for the y of the call before; the
\* record keeps the result of that call
TreeEvaluateMemo ==
    /\ IsOk(dc)
    /\ dout.op = "evaluate"
    /\ dout' = [op |-> "evaluate known_evals",
                y |-> dout.y,
                plain |-> dout.result,
                result |-> SymbolEvaluateMemo(dc, dout.y, <<>>, <<>>)]
    /\ UNCHANGED <<sv, out, dc, aux>>

NextMemo == TreeConstruct \/ TreeEvaluate \/ TreeEvaluateMemo

SpecMemo == Init /\ [][NextMemo]_vars

NextSimplify == KidsConstruct \/ Simplify \/ EvaluateBoth

SpecSimplify == Init /\ [][NextSimplify]_vars

NextInit == ConstructAny \/ NewCopy

SpecStateVectorInit == Init /\ [][NextInit]_vars

Next == Construct \/ Evaluate \/ Jac

Spec == Init /\ [][Next]_vars

(***************************************************************************)
(* Properties of StateVector                                               *)
(***************************************************************************)

\* a slice with integer bounds 0 <= start <= stop
WellFormed(a) ==
    /\ a.isSlice
    /\ ~IsNone(a.start) /\ ~IsNone(a.stop)
    /\ 0 <= Val(a.start) /\ Val(a.start) <= Val(a.stop)

AllWellFormed(y_slices) == \A k \in 1..Len(y_slices) : WellFormed(y_slices[k])

\* every slice is well formed and selects at least one index
AllNonEmpty(y_slices) ==
    \A k \in 1..Len(y_slices) :
        WellFormed(y_slices[k]) /\ Val(y_slices[k].start) < Val(y_slices[k].stop)

\* no bound of any slice is negative (a bound may be missing)
NoNegativeBound(y_slices) ==
    \A k \in 1..Len(y_slices) :
        /\ IsNone(y_slices[k].start) \/ Val(y_slices[k].start) >= 0
        /\ IsNone(y_slices[k].stop) \/ Val(y_slices[k].stop) >= 0

\* index k lies in the half-open range of slice a
Covers(a, k) ==
    /\ IsNone(a.start) \/ Val(a.start) <= k
    /\ IsNone(a.stop) \/ k < Val(a.stop)

Covered(y_slices, k) == \E j \in 1..Len(y_slices) : Covers(y_slices[j], k)

\* each slice starts at or after the stop of the one before it
Ascending(y_slices) ==
    \A k \in 1..Len(y_slices) - 1 :
        Val(y_slices[k + 1].start) >= Val(y_slices[k].stop)

\* the indices the slices select, slice after slice
RECURSIVE InSliceOrder(_, _)
InSliceOrder(y_slices, i) ==
    IF i > Len(y_slices) THEN <<>>
    ELSE Arange(Val(y_slices[i].start), Val(y_slices[i].stop))
         \o InSliceOrder(y_slices, i + 1)

\* the indices the slices cover, each once, in the order the slices name them
RECURSIVE CoveredInSliceOrder(_, _)
CoveredInSliceOrder(y_slices, i) ==
    IF i > Len(y_slices) THEN <<>>
    ELSE SelectSeq(Arange(Val(y_slices[i].start), Val(y_slices[i].stop)),
                   LAMBDA g : ~Covered(SubSeq(y_slices, 1, i - 1), g))
         \o CoveredInSliceOrder(y_slices, i + 1)

\* C5 (as claimed): s.jac(v), v of one slice, has one row per index selected by
\* s (the blocks of all the slices of s stacked in slice order, also those
\* sharing no index with v) and one column per index of v, with 1 exactly
\* where the row's global index is the column's
C5_JacIsIndicatorOfAllSlices ==
    (/\ out.op = "jac"
     /\ Len(out.variable.y_slices) = 1
     /\ AllNonEmpty(out.variable.y_slices)
     /\ AllNonEmpty(sv.y_slices))
    => LET rowIndex == InSliceOrder(sv.y_slices, 1)
           first == Val(out.variable.first_point)
           m == out.result
       IN /\ IsOk(m)
          /\ m.ncols = Val(out.variable.last_point) - first
          /\ Len(m.rows) = Len(rowIndex)
          /\ \A r \in 1..Len(m.rows) :
                /\ Len(m.rows[r]) = m.ncols
                /\ \A c \in 1..m.ncols :
                      m.rows[r][c] = (IF rowIndex[r] = first + c - 1 THEN 1 ELSE 0)

\* the j-th smallest index at which the mask is True
MaskedIndex(mask, j) ==
    CHOOSE k \in 0..Len(mask) - 1 :
        /\ mask[k + 1]
        /\ Cardinality({i \in 0..k : mask[i + 1]}) = j

\* C6 (amended): evaluate fails with TypeError when y is absent and with
\* ValueError when y is shorter than the mask; otherwise it returns, as a
\* column, the values of y at the indices where the mask is True, in ascending
\* index order, which is the slices' order when the slices are ascending
C6_EvaluateSelectsMask ==
    out.op = "evaluate"
    => LET y == out.y
           r == out.result
           mask == sv.evaluation_array
       IN /\ ~y.given => r.status = "TypeError"
          /\ (y.given /\ Len(y.v) < Len(mask)) => r.status = "ValueError"
          /\ (y.given /\ Len(y.v) >= Len(mask)) =>
                /\ IsOk(r)
                /\ r.ndim = 2
                /\ Len(r.data) = Cardinality({k \in 1..Len(mask) : mask[k]})
                /\ \A j \in 1..Len(r.data) : r.data[j] = y.v[MaskedIndex(mask, j) + 1]
                /\ (AllWellFormed(sv.y_slices) /\ Ascending(sv.y_slices)) =>
                      r.data = [j \in 1..Len(InSliceOrder(sv.y_slices, 1)) |->
                                   y.v[InSliceOrder(sv.y_slices, 1)[j] + 1]]

\* C6 witness: slice(0,3) on [10,20,30,40] gives [10,20,30]
C6_Witness ==
    /\ out.op = "evaluate"
    /\ sv.y_slices = <<pySlice(Some(0), Some(3))>>
    /\ out.y.given /\ out.y.v = <<10, 20, 30, 40>>
    /\ IsOk(out.result)
    /\ out.result.data = <<10, 20, 30>>

\* C6 (as claimed): whenever y is long enough for every slice, evaluate returns
\* the values of y at the indices covered by the slices, in slice order
C6_EvaluateInSliceOrder ==
    (/\ out.op = "evaluate"
     /\ AllNonEmpty(sv.y_slices)
     /\ out.y.given
     /\ \A k \in 1..Len(sv.y_slices) : Val(sv.y_slices[k].stop) <= Len(out.y.v))
    => /\ IsOk(out.result)
       /\ out.result.data =
             [j \in 1..Len(CoveredInSliceOrder(sv.y_slices, 1)) |->
                 out.y.v[CoveredInSliceOrder(sv.y_slices, 1)[j] + 1]]

\* C7 (amended): the mask of a StateVector built without an explicit mask, from
\* slices with no negative bound, has length last_point and is True exactly at
\* the indices below last_point that some slice covers
C7_MaskBelowLastPoint ==
    (out.op = "__init__" /\ IsOk(sv) /\ NoNegativeBound(sv.y_slices))
    => /\ Len(sv.evaluation_array) = Val(sv.last_point)
       /\ \A k \in 0..Val(sv.last_point) - 1 :
             sv.evaluation_array[k + 1] <=> Covered(sv.y_slices, k)

\* C7 witness: two slices, and a mask with both values in it
C7_Witness ==
    /\ out.op = "__init__" /\ IsOk(sv) /\ NoNegativeBound(sv.y_slices)
    /\ Len(sv.y_slices) = 2
    /\ \E k \in 1..Len(sv.evaluation_array) : sv.evaluation_array[k]
    /\ \E k \in 1..Len(sv.evaluation_array) : ~sv.evaluation_array[k]

\* C7 (as claimed): the mask has length last_point and is True at every index
\* that any slice covers, in whatever order the slices are given
C7_MaskCoversEverySlice ==
    (out.op = "__init__" /\ IsOk(sv) /\ AllNonEmpty(sv.y_slices))
    => /\ Len(sv.evaluation_array) = Val(sv.last_point)
       /\ \A k \in 0..MaxBound :
             Covered(sv.y_slices, k)
             <=> (k < Len(sv.evaluation_array) /\ sv.evaluation_array[k + 1])

\* C8 (amended): construction fails with TypeError whenever some argument is
\* no slice object, so a constructed StateVector has only slice arguments
C8_NonSliceRejected ==
    out.op = "__init__"
    => /\ (\E k \in 1..Len(out.args) : ~out.args[k].isSlice)
              => sv.status = "TypeError"
       /\ IsOk(sv) => \A k \in 1..Len(out.args) : out.args[k].isSlice

\* C8 witness: a slice and a non-slice passed together are rejected
C8_Witness ==
    /\ out.op = "__init__"
    /\ sv.status = "TypeError"
    /\ \E k \in 1..Len(out.args) : ~out.args[k].isSlice
    /\ \E k \in 1..Len(out.args) : WellFormed(out.args[k])

\* C8 (as claimed, any exception counted as the failure): construction fails
\* for every argument that is no well-formed range, so every constructed
\* StateVector has only slices with 0 <= start <= stop
C8_IllFormedRejected ==
    out.op = "__init__"
    => /\ (\E k \in 1..Len(out.args) : ~WellFormed(out.args[k])) => ~IsOk(sv)
       /\ IsOk(sv) => AllWellFormed(sv.y_slices)

(***************************************************************************)
(* Properties of Concatenation                                             *)
(***************************************************************************)

\* the children, in order, that give a non-empty value for the level
SetBy(children, level) ==
    SelectSeq([k \in 1..Len(children) |-> k],
              LAMBDA k : /\ level \in DOMAIN children[k].auxiliary_domains
                         /\ children[k].auxiliary_domains[level] # <<>>)

\* two children give different non-empty values for the same level
AuxConflict(children) ==
    \E level \in AuxLevelNames :
        \E j, k \in Range(SetBy(children, level)) :
            children[j].auxiliary_domains[level] # children[k].auxiliary_domains[level]

\* C9 (as claimed): the merged value of every axis present on a child is the
\* first non-empty value seen in child order, and construction fails with
\* DomainError when two children give different non-empty values for an axis
C9_AuxiliaryMergeFirstNonEmpty ==
    (/\ aux.op = "Concatenation"
     /\ \A k \in 1..Len(aux.children) :
           DOMAIN aux.children[k].auxiliary_domains \cap DictAttributes = {})
    => /\ AuxConflict(aux.children) => aux.result.status = "DomainError"
       /\ IsOk(aux.result) =>
             \A level \in AuxLevelNames :
                 SetBy(aux.children, level) # <<>> =>
                     /\ level \in DOMAIN aux.result.auxiliary_domains
                     /\ aux.result.auxiliary_domains[level] =
                            aux.children[SetBy(aux.children, level)[1]]
                                .auxiliary_domains[level]

(***************************************************************************)
(* Properties of DomainConcatenation                                       *)
(***************************************************************************)

\* the sum of f[1..n] for a sequence of numbers
RECURSIVE SumTo(_, _)
SumTo(f, n) == IF n = 0 THEN 0 ELSE f[n] + SumTo(f, n - 1)

\* mesh.points(d, i), i counted from 0
Points(mesh, d, i) == mesh.sub[d][i + 1]

\* the points of all the domains of the list at secondary index i
RowPoints(mesh, domain, i) ==
    SumTo([j \in 1..Len(domain) |-> Points(mesh, domain[j], i)], Len(domain))

\* where the block of domain d at secondary index i starts in a vector laid
\* out secondary-index-major over the domains of the list
BlockStart(mesh, domain, d, i) ==
    SumTo([n \in 1..i |-> RowPoints(mesh, domain, n - 1)], i)
    + SumTo([j \in 1..Len(domain) |->
                IF \E m \in j + 1..Len(domain) : domain[m] = d
                THEN Points(mesh, domain[j], i) ELSE 0], Len(domain))

\* the domains of all the children in the mesh's canonical order
Canonical(mesh, children) ==
    SelectSeq(mesh.domain_order,
              LAMBDA d : \E k \in 1..Len(children) : d \in Range(children[k].domain))

\* the (domain, secondary index) pairs of the node
Blocks(node) ==
    Range(node.domain) \X (0..node.secondary_dimensions_npts - 1)

\* positions start..stop-1 of a slice
Positions(sl) == sl.start..sl.stop - 1

\* C2: the global slices are laid out secondary-index-major: slices[d][i]
\* starts where the slice before it in (i, d) order stopped (the first at 0)
\* and is mesh.points(d, i) long; the slices are pairwise disjoint and cover
\* [0, size), and size is the sum of the points of all domains and indices
C2_SlicesSecondaryIndexMajor ==
    IsOk(dc) =>
    LET npts == dc.secondary_dimensions_npts
        canon == Canonical(dc.mesh, dc.children)
    IN /\ dc.domain = canon
       /\ DOMAIN dc.slices = Range(canon)
       /\ \A d \in Range(canon) :
             /\ Len(dc.slices[d]) = npts
             /\ \A i \in 0..npts - 1 :
                   /\ dc.slices[d][i + 1].start = BlockStart(dc.mesh, canon, d, i)
                   /\ dc.slices[d][i + 1].stop =
                          BlockStart(dc.mesh, canon, d, i) + Points(dc.mesh, d, i)
       /\ dc.size = SumTo([n \in 1..npts |-> RowPoints(dc.mesh, canon, n - 1)], npts)
       /\ \A p \in 0..dc.size - 1 :
             Cardinality({b \in Blocks(dc) :
                             p \in Positions(dc.slices[b[1]][b[2] + 1])}) = 1
       /\ \A b \in Blocks(dc) :
             Positions(dc.slices[b[1]][b[2] + 1]) \subseteq 0..dc.size - 1

\* C2 witness: two domains with two secondary points each, of different sizes
C2_Witness ==
    /\ IsOk(dc)
    /\ dc.domain = <<"A", "B">>
    /\ dc.secondary_dimensions_npts = 2
    /\ dc.mesh.sub["A"] = <<2, 1>>
    /\ dc.mesh.sub["B"] = <<1, 2>>
    /\ dc.slices["A"] = <<[start |-> 0, stop |-> 2], [start |-> 3, stop |-> 4]>>
    /\ dc.slices["B"] = <<[start |-> 2, stop |-> 3], [start |-> 4, stop |-> 6]>>
    /\ dc.size = 6

\* the child that holds domain d
Holder(children, d) == CHOOSE k \in 1..Len(children) : d \in Range(children[k].domain)

\* the write of child k for domain d and secondary index i (from 0)
WritesTo(node, p) ==
    {w \in (1..Len(node.children)) \X Blocks(node) :
        /\ w[2][1] \in Range(node.children[w[1]].domain)
        /\ p \in Positions(node.slices[w[2][1]][w[2][2] + 1])}

\* C1: evaluate returns a vector of length size in which, for every child,
\* domain d of it and secondary index i, the range slices[d][i] holds the
\* child's vector over children_slices[child][d][i]; every position is written
\* exactly once, and the result is in the mesh's canonical domain order
\* whatever the order of the children
C1_EvaluateScattersChildren ==
    dout.op = "evaluate" =>
    LET r == dout.result
        canon == Canonical(dc.mesh, dc.children)
    IN /\ IsOk(r)
       /\ Len(r.vector) = dc.size
       /\ \A k \in 1..Len(dc.children) :
             \A d \in Range(dc.children[k].domain) :
                 \A i \in 1..dc.secondary_dimensions_npts :
                     SubSeq(r.vector, dc.slices[d][i].start + 1, dc.slices[d][i].stop)
                     = SubSeq(dout.children_eval[k],
                              dc.children_slices[k][d][i].start + 1,
                              dc.children_slices[k][d][i].stop)
       /\ \A p \in 0..dc.size - 1 : Cardinality(WritesTo(dc, p)) = 1
       /\ \A b \in Blocks(dc) :
             LET k == Holder(dc.children, b[1])
                 from == BlockStart(dc.mesh, dc.children[k].domain, b[1], b[2])
                 to == BlockStart(dc.mesh, canon, b[1], b[2])
             IN \A j \in 1..Points(dc.mesh, b[1], b[2]) :
                    r.vector[to + j] = dout.children_eval[k][from + j]

\* C1 witness: the child on B is passed before the child on A, two secondary
\* points, and the result is in the order A, B of the mesh at each of them
C1_Witness ==
    /\ dout.op = "evaluate"
    /\ Len(dc.children) = 2
    /\ dc.children[1].domain = <<"B">>
    /\ dc.children[2].domain = <<"A">>
    /\ dc.mesh.sub["A"] = <<2, 1>>
    /\ dc.mesh.sub["B"] = <<1, 2>>
    /\ dout.children_eval = <<<<101, 102, 103>>, <<201, 202, 203>>>>
    /\ IsOk(dout.result)
    /\ dout.result.vector = <<201, 202, 101, 203, 102, 103>>

\* C10 (as claimed, any exception counted as the failure): the secondary
\* point count is read from the first canonical domain, and construction
\* fails whenever a domain of a child has another number of secondary
\* points; so in a constructed node every domain of every child has the
\* node's count
C10_EveryChildDomainSameCount ==
    IsOk(dc) =>
       /\ dc.secondary_dimensions_npts =
              Len(dc.mesh.sub[Canonical(dc.mesh, dc.children)[1]])
       /\ \A k \in 1..Len(dc.children) :
             \A d \in Range(dc.children[k].domain) :
                 Len(dc.mesh.sub[d]) = dc.secondary_dimensions_npts

\* the masks of the children split [first, last) among them: every index of
\* it is in exactly one mask, and no mask has an index outside it
MasksPartition(children, first, last) ==
    /\ \A p \in first..last - 1 : MaskSum(children, p) = 1
    /\ \A p \in 0..MaxKidPoint : (p < first \/ p >= last) => MaskSum(children, p) = 0

\* C3 (as claimed): simplify of a node whose children are all StateVectors
\* returns a single StateVector exactly when the masks of the children
\* partition the range from the first child's first index to the last child's
\* last index; otherwise it returns, without raising, a DomainConcatenation
\* with its domain cleared
C3_CollapsesExactlyOnPartition ==
    (/\ dout.op = "simplify"
     /\ \A k \in 1..Len(dc.children) :
           /\ dc.children[k].kind = "StateVector"
           /\ Ascending(dc.children[k].y_slices))
    => LET n == Len(dc.children)
           first == Val(dc.children[1].y_slices[1].start)
           last == Val(dc.children[n].y_slices[Len(dc.children[n].y_slices)].stop)
           r == dout.result
       IN /\ IsOk(r)
          /\ r.kind = "StateVector" <=> MasksPartition(dc.children, first, last)
          /\ r.kind # "StateVector" =>
                r.kind = "DomainConcatenation" /\ r.domain = <<>>

\* C4 (as claimed, for children whose slices are ascending): a StateVector
\* that simplify collapsed a node to evaluates, on every y long enough for
\* both, to the vector the node evaluates to
C4_CollapsedEvaluatesAlike ==
    (/\ dout.op = "evaluate both"
     /\ dout.simplified.kind = "StateVector"
     /\ \A k \in 1..Len(dc.children) : Ascending(dc.children[k].y_slices)
     /\ IsOk(dout.before)
     /\ IsOk(dout.after))
    => dout.after.vector = dout.before.vector

\* the rows of a Jacobian named by the entries they differentiate
DerivativesOf(rows) == [p \in 1..Len(rows) |-> rows[p].derivative_of]

\* C11: jac fails with NotImplementedError when a child has more than one
\* domain; otherwise it is the vertical stack of one block per (secondary
\* index i, child c), i the outer and c the inner order, the block being the
\* rows of c's Jacobian over c's local slice for i, and it has size rows
C11_JacStacksIndexMajor ==
    dout.op = "jac" =>
    LET r == dout.result
        count == Len(dc.children)
        npts == dc.secondary_dimensions_npts
        local(c, i) == dc.children_slices[c][dc.children[c].domain[1]][i + 1]
        offset(n) == SumTo([m \in 1..n - 1 |-> Len(r.jacs[m])], n - 1)
    IN IF \E c \in 1..count : Len(dc.children[c].domain) > 1
       THEN r.status = "NotImplementedError"
       ELSE /\ IsOk(r)
            /\ Len(r.jacs) = npts * count
            /\ \A i \in 0..npts - 1 :
                  \A c \in 1..count :
                      r.jacs[i * count + c] =
                          SubSeq(dout.child_jacs[c], local(c, i).start + 1,
                                 local(c, i).stop)
            /\ Len(r.rows) = dc.size
            /\ \A n \in 1..Len(r.jacs) :
                  \A j \in 1..Len(r.jacs[n]) : r.rows[offset(n) + j] = r.jacs[n][j]

\* C11 witness: a child on A and a child on B, two secondary points each:
\* the blocks are A at 0, B at 0, A at 1, B at 1
C11_Witness ==
    /\ dout.op = "jac"
    /\ Len(dc.children) = 2
    /\ dc.children[1].domain = <<"A">>
    /\ dc.children[2].domain = <<"B">>
    /\ dc.mesh.sub["A"] = <<2, 1>>
    /\ dc.mesh.sub["B"] = <<1, 2>>
    /\ IsOk(dout.result)
    /\ DerivativesOf(dout.result.rows) = <<101, 102, 201, 103, 202, 203>>

\* C12 (as claimed): for single-domain children in any order, row k of the
\* Jacobian is the derivative of element k of what evaluate returns
C12_JacRowsInEvaluateOrder ==
    (/\ dout.op = "jac"
     /\ dout.evaluated.op = "evaluate"
     /\ \A c \in 1..Len(dc.children) : Len(dc.children[c].domain) = 1)
    => /\ IsOk(dout.result)
       /\ IsOk(dout.evaluated.result)
       /\ DerivativesOf(dout.result.rows) = dout.evaluated.result.vector

(***************************************************************************)
(* Properties of evaluation with known_evals                               *)
(***************************************************************************)

\* the visits before the n-th to a node of the same id
EarlierVisits(visits, n) ==
    {m \in 1..n - 1 : SymbolId(visits[m].node) = SymbolId(visits[n].node)}

\* C13: in one evaluate call with a fresh known_evals, a concatenation node
\* is combined from its children only when its id is not yet in known_evals,
\* so at most once per id; known_evals then holds its value under its id,
\* every later visit returns that value, and the call returns what
\* evaluate(t, y) without known_evals returns (or fails as it fails)
C13_MemoisedEvaluateOncePerId ==
    dout.op = "evaluate known_evals" =>
    LET r == dout.result IN
    /\ IsOk(r) <=> IsOk(dout.plain)
    /\ ~IsOk(r) => r.status = dout.plain.status
    /\ IsOk(r) =>
          /\ r.value = dout.plain.vector
          /\ InKnownEvals(r.known_evals, SymbolId(dc))
          /\ KnownEval(r.known_evals, SymbolId(dc)) = r.value
          /\ \A n \in 1..Len(r.visits) :
                LET v == r.visits[n] IN
                /\ v.combined <=> EarlierVisits(r.visits, n) = {}
                /\ \A m \in EarlierVisits(r.visits, n) : r.visits[m].value = v.value
                /\ InKnownEvals(r.known_evals, SymbolId(v.node))
                /\ KnownEval(r.known_evals, SymbolId(v.node)) = v.value
                /\ v.value = SymbolEvaluate(v.node, dout.y).vector
          /\ \A j, k \in 1..Len(r.known_evals) :
                r.known_evals[j].id = r.known_evals[k].id => j = k

\* C13 witness: the root holds the same concatenation twice; it is combined
\* at the first visit and returned from known_evals at the second
C13_Witness ==
    /\ dout.op = "evaluate known_evals"
    /\ IsOk(dout.result)
    /\ Len(dc.children) = 2
    /\ dc.children[1] = dc.children[2]
    /\ dc.children[1].kind = "NumpyConcatenation"
    /\ Len(dc.children[1].children) = 1
    /\ dout.result.value = <<10, 10>>
    /\ Len(dout.result.visits) = 3
    /\ dout.result.visits[1].combined
    /\ ~dout.result.visits[2].combined
    /\ dout.result.visits[2].value = <<10>>

====
